---- MODULE Spec2Model ----
(***************************************************************************)
(* Refresh/cache orchestration of markets_dashboard.py (MarketsMonitor and *)
(* RequestHandler).  One trigger is one call of start_full_refresh: the    *)
(* call in main, a thread started by GET /api/refresh, or a fired          *)
(* threading.Timer running _auto_refresh.  A trigger that passes the       *)
(* in-flight check starts one refresh cycle: a listing adapter thread, a   *)
(* scrape adapter thread and a wait_and_combine thread.  The statements of *)
(* start_full_refresh and of _combine_data that read or write an attribute *)
(* of the shared monitor are steps of their own; an adapter's hand-off and *)
(* the clearing of its flag are one step, since no other thread reads both.*)
(* Spec is the whole process against a well-behaved upstream; ListingSpec  *)
(* is its first cycle alone against an upstream that may serve any page.   *)
(***************************************************************************)
EXTENDS Integers, Sequences, FiniteSets, TLC

\* ------------------------------------------------------------------ bounds
\* calls of start_full_refresh in one run (main, manual and timer together)
MaxTriggers == 3
\* calls and cycles that may be unfinished at the same time
MaxLive == 2
\* pages the listing upstream serves before its last page
MaxListingPages == 1
\* the same for the upstream of a listing adapter that runs in a single
\* cycle
MaxPagesAlone == 2
\* pages the scrape adapter may visit (max_pages of the code, scaled down)
MaxScrapePages == 1
\* the same for a scrape adapter that runs in a cycle of its own kind
MaxScrapePagesAlone == 3
\* slugs of a page below which the scrape adapter takes the page for the
\* last one (80 in the code, scaled down)
ShortPage == 2

\* v1_rewards_scraper.py: GET /api/refresh requests answered "started"
MaxScrapes == 2
\* max_pages of scrape_all_pages (100 in the code, scaled down)
V1MaxPages == 2
\* markets of a page below which scrape_all_pages takes the page for the
\* last one (90 in the code, scaled down)
V1ShortPage == 2

\* events of a full upstream page (`limit` of _fetch_all_markets, 100 in
\* the code, scaled down)
limit == 4

Triggers == 1..MaxTriggers

\* slug of the market of the n-th upstream event
SlugSeq == <<"a", "b", "c", "d", "e">>
PageSlug(p) == SlugSeq[((p - 1) % Len(SlugSeq)) + 1]

VARIABLES
    markets,              \* self.markets: the published record list
    cached_markets,       \* self.cached_markets
    last_updated,         \* self.last_updated: 0 is None, else a logical time
    rewards_slugs,        \* self.rewards_slugs
    is_fetching_markets,  \* self.is_fetching_markets
    is_fetching_rewards,  \* self.is_fetching_rewards
    fetch_progress,       \* self.fetch_progress
    refresh_timer,        \* self.refresh_timer: 0 is None, else a Timer
    timer,                \* state of the Timer object created by trigger t
    temp_markets,         \* self._temp_markets: <<>> absent, <<list>> present
    temp_rewards_slugs,   \* self._temp_rewards_slugs: <<>> absent, <<set>>
    tpc,                  \* position of call t inside start_full_refresh
    mpc,                  \* position of the _fetch_markets_thread of cycle t
    rpc,                  \* position of the _fetch_rewards_thread of cycle t
    cpc,                  \* position of the wait_and_combine thread of cycle t
    all_markets,          \* local all_markets of the listing adapter of t
    offset,               \* local offset of the listing adapter of t
    events,               \* local events of the listing adapter of t: the
                          \* page it read last
    scraped,              \* local rewards_slugs of the scrape adapter of t
    page_num,             \* local page_num of the scrape adapter of t
    first_page_slugs,     \* local first_page_slugs: <<>> is None, else <<set>>
    slugs,                \* local slugs of the scrape adapter of t: the
                          \* page it read last, as a set (the page script
                          \* returns every slug once)
    comb_markets          \* local markets of _combine_data of cycle t
                          \* (a local is emptied after its last use)

monitorVars == <<markets, cached_markets, last_updated, rewards_slugs,
                 is_fetching_markets, is_fetching_rewards, fetch_progress,
                 refresh_timer, timer, temp_markets, temp_rewards_slugs>>
threadVars == <<tpc, mpc, rpc, cpc>>
scrapeLocals == <<scraped, page_num, first_page_slugs, slugs>>
localVars == <<all_markets, offset, events, scrapeLocals, comb_markets>>
dashboardVars == <<monitorVars, threadVars, localVars>>

\* v1_rewards_scraper.py, a program of its own
VARIABLES
    rewards_monitor,      \* monitor, the RewardsMonitor instance: markets
                          \* (the condition_id of each market), last_updated
                          \* (0 is None), is_scraping, scrape_progress
    scrape                \* the run_scrape thread started by request s: its
                          \* position and the locals of scrape_all_pages

scraperVars == <<rewards_monitor, scrape>>
vars == <<dashboardVars, scraperVars>>

\* ----------------------------------------------------------------- helpers
\* an upstream market of the Gamma API, as far as _fetch_all_markets reads
\* it.  A price is written in units of 0.00001 dollar ("0.4" is 40000).
\* pricesJson is "array" (outcomePrices is a JSON array of numbers),
\* "null" (the field is JSON null) or "text" (an array whose elements are
\* not numbers).  volumeNum and liquidityNum are JSON values
UpstreamMarket(s, outs, prices, json, vol, liq) ==
    [slug |-> s, outcomes |-> outs, outcomePrices |-> prices,
     pricesJson |-> json, volumeNum |-> vol, liquidityNum |-> liq]

\* the value of a key of an upstream JSON object: a number (of dollars),
\* null, or the key is absent
JsonNumber(n) == [json |-> "number", num |-> n]
JsonNull == [json |-> "null", num |-> 0]
JsonAbsent == [json |-> "absent", num |-> 0]

\* a market with both prices, enough volume and enough liquidity
ValidMarket(s) ==
    UpstreamMarket(s, <<"Yes", "No">>, <<40000, 60000>>, "array",
                   JsonNumber(100), JsonNumber(100))

\* a placeholder market: no outcomePrices (the default "[]" is parsed)
PlaceholderMarket(s) ==
    UpstreamMarket(s, <<"Yes", "No">>, <<>>, "array",
                   JsonNumber(100), JsonNumber(100))

\* the upstream markets a page may carry at the position of slug s
MarketKinds(s) ==
    { ValidMarket(s),
      PlaceholderMarket(s),
      UpstreamMarket(s, <<"No", "Yes">>, <<66663, 33337>>, "array",
                     JsonNumber(10), JsonNumber(10)),
      UpstreamMarket(s, <<"Up", "Down">>, <<40000, 60000>>, "array",
                     JsonNumber(100), JsonNumber(100)),
      UpstreamMarket(s, <<"Yes", "No">>, <<>>, "null",
                     JsonNumber(100), JsonNumber(100)),
      UpstreamMarket(s, <<"Yes", "No">>, <<40000, 60000>>, "array",
                     JsonNumber(9), JsonNumber(100)),
      UpstreamMarket(s, <<"Yes", "No">>, <<40000, 60000>>, "array",
                     JsonNull, JsonNumber(100)),
      UpstreamMarket(s, <<"Yes", "No">>, <<40000, 60000>>, "array",
                     JsonNumber(100), JsonAbsent),
      UpstreamMarket(s, <<"Yes", "No">>, <<150000, -50000>>, "array",
                     JsonNumber(100), JsonNumber(100)) }

\* round(float(price) * 100, 2) of a price u: the result in units of 0.01
\* cent, rounded to the nearest, a half to the even neighbour
PriceCents(u) ==
    LET q == u \div 10
        r == u % 10
    IN  IF r > 5 \/ (r = 5 /\ q % 2 = 1) THEN q + 1 ELSE q

\* the value the loop over enumerate(outcomes) leaves in yes_price
\* (name "Yes") or no_price (name "No"): the price of the last outcome of
\* that name, <<>> (None) when there is none
OutcomePrice(m, name) ==
    LET at == {i \in 1..Len(m.outcomes) : m.outcomes[i] = name}
    IN  IF at = {} THEN <<>>
        ELSE <<PriceCents(m.outcomePrices[
                 CHOOSE i \in at : \A j \in at : j <= i])>>

\* yes_price and no_price of one market.  raised: json.loads of a null
\* field (TypeError), float of a non-number (ValueError) or prices[i] past
\* the end of a shorter price list (IndexError)
MarketPrices(m) ==
    IF m.pricesJson = "null"
    THEN [raised |-> TRUE, yes_price |-> <<>>, no_price |-> <<>>]
    ELSE IF Len(m.outcomePrices) >= 2 /\ Len(m.outcomes) >= 2
    THEN IF m.pricesJson = "text" \/ Len(m.outcomes) > Len(m.outcomePrices)
         THEN [raised |-> TRUE, yes_price |-> <<>>, no_price |-> <<>>]
         ELSE [raised |-> FALSE,
               yes_price |-> OutcomePrice(m, "Yes"),
               no_price |-> OutcomePrice(m, "No")]
    ELSE [raised |-> FALSE, yes_price |-> <<>>, no_price |-> <<>>]

\* a filter that keeps markets without prices
SkipPlaceholderNever(yes_price, no_price) == FALSE

\* `if yes_price is None or no_price is None: continue`
SkipPlaceholder(yes_price, no_price) == yes_price = <<>> \/ no_price = <<>>

\* `market.get(key, 0)`: the default for an absent key, else the value
\* (None for a JSON null)
DictGet0(v) == IF v.json = "absent" THEN JsonNumber(0) ELSE v

\* `x or 0`: the number x unless x is None or zero
OrZero(v) == IF v.json = "number" /\ v.num # 0 THEN v.num ELSE 0

\* a filter that keeps every market
SkipThinNever(m) == FALSE

\* `volume = market.get("volumeNum", 0) or 0`, the same for liquidity, and
\* `if volume < 10 or liquidity < 10: continue`
SkipThin(m) ==
    LET volume == OrZero(DictGet0(m.volumeNum))
        liquidity == OrZero(DictGet0(m.liquidityNum))
    IN  volume < 10 \/ liquidity < 10

\* the market_data dict: the fields the monitor and the handlers use.
\* ref names the dict object itself (the adapter run that created it and
\* its position), so that two lists holding the same dict can be told from
\* two dicts with equal fields
market_data(m, prices, ref) ==
    [slug |-> m.slug, yes_price |-> prices.yes_price,
     no_price |-> prices.no_price,
     volume |-> DictGet0(m.volumeNum),
     liquidity |-> DictGet0(m.liquidityNum),
     has_rewards |-> FALSE, ref |-> ref]

\* the loops over the events of one page (one market per event), run by
\* the adapter of cycle t on its all_markets: accepted markets are
\* appended in upstream order; an exception ends the page with the
\* markets appended so far
RECURSIVE AppendMarkets(_, _, _)
AppendMarkets(list, page, t) ==
    IF page = <<>> THEN [all_markets |-> list, raised |-> FALSE]
    ELSE LET m == Head(page)
             prices == MarketPrices(m)
         IN  IF prices.raised THEN [all_markets |-> list, raised |-> TRUE]
             ELSE IF SkipPlaceholder(prices.yes_price, prices.no_price)
                     \/ SkipThin(m)
             THEN AppendMarkets(list, Tail(page), t)
             ELSE AppendMarkets(
                    Append(list, market_data(m, prices, <<t, Len(list) + 1>>)),
                    Tail(page), t)

Progress(m, r, s) == [markets |-> m, rewards |-> r, status |-> s]

\* the threading.Timer has been start()ed
TimerStarted(k) == timer[k] \in {"pending", "cancelled", "fired"}

\* Timer.cancel() on timer k of the timers tm: sets the finished event; a
\* timer that already ran its function is not affected
Cancelled(tm, k) ==
    [tm EXCEPT ![k] = CASE tm[k] = "new" -> "newcancelled"
                        [] tm[k] = "pending" -> "cancelled"
                        [] OTHER -> tm[k]]

TimerCancel(k) == Cancelled(timer, k)

\* cancel_auto_refresh without its `if self.refresh_timer:`
cancel_auto_refresh_unguarded(rt, tm) ==
    IF rt = 0 THEN [refresh_timer |-> rt, timer |-> tm, raised |-> TRUE]
    ELSE [refresh_timer |-> 0, timer |-> Cancelled(tm, rt), raised |-> FALSE]

\* cancel_auto_refresh run by one thread alone on the handle rt and the
\* timers tm: what it leaves, and whether it raised
cancel_auto_refresh(rt, tm) ==
    IF rt # 0
    THEN [refresh_timer |-> 0, timer |-> Cancelled(tm, rt), raised |-> FALSE]
    ELSE [refresh_timer |-> rt, timer |-> tm, raised |-> FALSE]

\* number of calls of start_full_refresh made so far
Used == Cardinality({t \in Triggers : tpc[t] # "unused"})

\* main has returned from monitor.start_full_refresh() and the HTTPServer
\* is in serve_forever
Serving == tpc[1] = "done"

\* scrape_progress of the RewardsMonitor; total is "?" or a page number
ScrapeProgress(current, total) == [current |-> current, total |-> total]

\* the locals of scrape_all_pages before its first statement
NoLocals(pc) ==
    [pc |-> pc, all_markets |-> <<>>, seen_ids |-> {},
     first_page_first_market |-> <<>>, page_num |-> 1,
     markets_data |-> <<>>, caught |-> FALSE]

Scrapes == 1..MaxScrapes

\* RewardsMonitor.__init__, and no run_scrape thread
ScraperInit ==
    /\ rewards_monitor = [markets |-> <<>>, last_updated |-> 0,
                          is_scraping |-> FALSE,
                          scrape_progress |-> ScrapeProgress(0, "?")]
    /\ scrape = [s \in Scrapes |-> NoLocals("none")]

Init ==
    /\ ScraperInit
    /\ markets = <<>>
    /\ cached_markets = <<>>
    /\ last_updated = 0
    /\ rewards_slugs = {}
    /\ is_fetching_markets = FALSE
    /\ is_fetching_rewards = FALSE
    /\ fetch_progress = Progress(0, 0, "idle")
    /\ refresh_timer = 0
    /\ timer = [t \in Triggers |-> "none"]
    /\ temp_markets = <<>>
    /\ temp_rewards_slugs = <<>>
    /\ tpc = [t \in Triggers |-> "unused"]
    /\ mpc = [t \in Triggers |-> "none"]
    /\ rpc = [t \in Triggers |-> "none"]
    /\ cpc = [t \in Triggers |-> "none"]
    /\ all_markets = [t \in Triggers |-> <<>>]
    /\ offset = [t \in Triggers |-> 0]
    /\ events = [t \in Triggers |-> <<>>]
    /\ scraped = [t \in Triggers |-> {}]
    /\ page_num = [t \in Triggers |-> 1]
    /\ first_page_slugs = [t \in Triggers |-> <<>>]
    /\ slugs = [t \in Triggers |-> {}]
    /\ comb_markets = [t \in Triggers |-> <<>>]

\* call t of start_full_refresh has not returned, or the cycle it started
\* has not finished _combine_data
Live(t) ==
    \/ tpc[t] \notin {"unused", "returned", "raised", "done"}
    \/ cpc[t] \notin {"none", "done"}

\* a new call of start_full_refresh, in the next free slot
NewTrigger ==
    /\ Used < MaxTriggers
    /\ Cardinality({t \in Triggers : Live(t)}) < MaxLive
    /\ tpc' = [tpc EXCEPT ![Used + 1] = "check_markets"]

\* ---------------------------------------------------------------- triggers
\* main(): monitor.start_full_refresh() before the server is created
MainTrigger ==
    /\ Used = 0
    /\ NewTrigger
    /\ UNCHANGED <<scraperVars, monitorVars, mpc, rpc, cpc, localVars>>

\* a started threading.Timer reaches its interval (refresh_interval, 300
\* seconds: the call that created it has returned long before) and runs
\* _auto_refresh on its own thread
TimerFires(k) ==
    /\ timer[k] = "pending"
    /\ tpc[k] \in {"done", "raised"}
    /\ timer' = [timer EXCEPT ![k] = "fired"]
    /\ NewTrigger
    /\ UNCHANGED <<scraperVars, markets, cached_markets, last_updated, rewards_slugs,
                   is_fetching_markets, is_fetching_rewards, fetch_progress,
                   refresh_timer, temp_markets, temp_rewards_slugs,
                   mpc, rpc, cpc, localVars>>

\* ---------------------------------------------------- start_full_refresh
\* `if self.is_fetching_markets or ...`: the left operand of the `or`
CheckMarkets(t) ==
    /\ tpc[t] = "check_markets"
    /\ tpc' = [tpc EXCEPT ![t] = IF is_fetching_markets THEN "returned"
                                 ELSE "check_rewards"]
    /\ UNCHANGED <<scraperVars, monitorVars, mpc, rpc, cpc, localVars>>

\* the right operand of the check without its `return`
CheckRewardsNoReturn(t) ==
    /\ tpc[t] = "check_rewards"
    /\ tpc' = [tpc EXCEPT ![t] = "cache"]
    /\ UNCHANGED <<scraperVars, monitorVars, mpc, rpc, cpc, localVars>>

\* `... or self.is_fetching_rewards: return`: the right operand
CheckRewards(t) ==
    /\ tpc[t] = "check_rewards"
    /\ tpc' = [tpc EXCEPT ![t] = IF is_fetching_rewards THEN "returned"
                                 ELSE "cache"]
    /\ UNCHANGED <<scraperVars, monitorVars, mpc, rpc, cpc, localVars>>

\* `if self.markets: self.cached_markets = self.markets.copy()`
CacheCurrent(t) ==
    /\ tpc[t] = "cache"
    /\ cached_markets' = IF markets # <<>> THEN markets ELSE cached_markets
    /\ tpc' = [tpc EXCEPT ![t] = "cancel_test"]
    /\ UNCHANGED <<scraperVars, markets, last_updated, rewards_slugs, is_fetching_markets,
                   is_fetching_rewards, fetch_progress, refresh_timer, timer,
                   temp_markets, temp_rewards_slugs, mpc, rpc, cpc,
                   localVars>>

\* start_auto_refresh -> cancel_auto_refresh: `if self.refresh_timer:`
CancelTest(t) ==
    /\ tpc[t] = "cancel_test"
    /\ tpc' = [tpc EXCEPT ![t] = IF refresh_timer # 0 THEN "cancel_call"
                                 ELSE "timer_create"]
    /\ UNCHANGED <<scraperVars, monitorVars, mpc, rpc, cpc, localVars>>

\* `self.refresh_timer.cancel()`: reads the attribute again; on None the
\* call raises AttributeError and the thread of the call dies
CancelCall(t) ==
    /\ tpc[t] = "cancel_call"
    /\ IF refresh_timer = 0
       THEN /\ tpc' = [tpc EXCEPT ![t] = "raised"]
            /\ UNCHANGED timer
       ELSE /\ tpc' = [tpc EXCEPT ![t] = "cancel_clear"]
            /\ timer' = TimerCancel(refresh_timer)
    /\ UNCHANGED <<scraperVars, markets, cached_markets, last_updated, rewards_slugs,
                   is_fetching_markets, is_fetching_rewards, fetch_progress,
                   refresh_timer, temp_markets, temp_rewards_slugs,
                   mpc, rpc, cpc, localVars>>

\* `self.refresh_timer = None`
CancelClear(t) ==
    /\ tpc[t] = "cancel_clear"
    /\ refresh_timer' = 0
    /\ tpc' = [tpc EXCEPT ![t] = "timer_create"]
    /\ UNCHANGED <<scraperVars, markets, cached_markets, last_updated, rewards_slugs,
                   is_fetching_markets, is_fetching_rewards, fetch_progress,
                   timer, temp_markets, temp_rewards_slugs,
                   mpc, rpc, cpc, localVars>>

\* `self.refresh_timer = threading.Timer(self.refresh_interval, ...)`
TimerCreate(t) ==
    /\ tpc[t] = "timer_create"
    /\ refresh_timer' = t
    /\ timer' = [timer EXCEPT ![t] = "new"]
    /\ tpc' = [tpc EXCEPT ![t] = "timer_daemon"]
    /\ UNCHANGED <<scraperVars, markets, cached_markets, last_updated, rewards_slugs,
                   is_fetching_markets, is_fetching_rewards, fetch_progress,
                   temp_markets, temp_rewards_slugs,
                   mpc, rpc, cpc, localVars>>

\* `self.refresh_timer.daemon = True`: AttributeError on None, RuntimeError
\* on a thread that was already started
TimerDaemon(t) ==
    /\ tpc[t] = "timer_daemon"
    /\ tpc' = [tpc EXCEPT ![t] =
                 IF refresh_timer = 0 \/ TimerStarted(refresh_timer)
                 THEN "raised" ELSE "timer_start"]
    /\ UNCHANGED <<scraperVars, monitorVars, mpc, rpc, cpc, localVars>>

\* `self.refresh_timer.start()`: AttributeError on None, RuntimeError when
\* the thread was already started; a timer cancelled before its start
\* ends at once without running its function
TimerStart(t) ==
    /\ tpc[t] = "timer_start"
    /\ IF refresh_timer = 0 \/ TimerStarted(refresh_timer)
       THEN /\ tpc' = [tpc EXCEPT ![t] = "raised"]
            /\ UNCHANGED timer
       ELSE /\ tpc' = [tpc EXCEPT ![t] = "spawn"]
            /\ timer' = [timer EXCEPT ![refresh_timer] =
                           IF timer[refresh_timer] = "new" THEN "pending"
                           ELSE "cancelled"]
    /\ UNCHANGED <<scraperVars, markets, cached_markets, last_updated, rewards_slugs,
                   is_fetching_markets, is_fetching_rewards, fetch_progress,
                   refresh_timer, temp_markets, temp_rewards_slugs,
                   mpc, rpc, cpc, localVars>>

\* `self.fetch_progress = {0, 0, "fetching"}`, then the three threads are
\* created and started; the call returns
SpawnThreads(t) ==
    /\ tpc[t] = "spawn"
    /\ fetch_progress' = Progress(0, 0, "fetching")
    /\ mpc' = [mpc EXCEPT ![t] = "set_flag"]
    /\ rpc' = [rpc EXCEPT ![t] = "set_flag"]
    /\ cpc' = [cpc EXCEPT ![t] = "join"]
    /\ tpc' = [tpc EXCEPT ![t] = "done"]
    /\ UNCHANGED <<scraperVars, markets, cached_markets, last_updated, rewards_slugs,
                   is_fetching_markets, is_fetching_rewards,
                   refresh_timer, timer, temp_markets, temp_rewards_slugs,
                   localVars>>

start_full_refresh(t) ==
    \/ CheckMarkets(t)
    \/ CheckRewards(t)
    \/ CacheCurrent(t)
    \/ CancelTest(t)
    \/ CancelCall(t)
    \/ CancelClear(t)
    \/ TimerCreate(t)
    \/ TimerDaemon(t)
    \/ TimerStart(t)
    \/ SpawnThreads(t)

\* ------------------------------------------------- listing adapter thread
\* a thread wrapper without the `finally`: the thread just ends
MarketsOnRaiseNoFinally == "done"

\* what _fetch_markets_thread does when _fetch_all_markets raises: the
\* `finally` clears the flag
MarketsOnRaise == "clear_flag"

\* _fetch_markets_thread: `self.is_fetching_markets = True`, then
\* _fetch_all_markets starts with an empty all_markets
MarketsSetFlag(t) ==
    /\ mpc[t] = "set_flag"
    /\ is_fetching_markets' = TRUE
    /\ mpc' = [mpc EXCEPT ![t] = "page"]
    /\ UNCHANGED <<scraperVars, markets, cached_markets, last_updated, rewards_slugs,
                   is_fetching_rewards, fetch_progress, refresh_timer, timer,
                   temp_markets, temp_rewards_slugs, tpc, rpc, cpc,
                   localVars>>

\* the pages of n events the upstream may serve: the market of the i-th
\* event of a page has the i-th slug
PagesOfLen(n) ==
    {pg \in [1..n -> UNION {MarketKinds(PageSlug(i)) : i \in 1..n}] :
        \A i \in 1..n : pg[i] \in MarketKinds(PageSlug(i))}

\* a full page: `limit` events, every market valid
FullPage == [i \in 1..limit |-> ValidMarket(PageSlug(i))]

\* any upstream page: a short page of any markets, or a full page
UpstreamPages == UNION {PagesOfLen(n) : n \in 0..(limit - 1)} \cup {FullPage}

\* the pages of a well-behaved upstream: the empty page, a short page of
\* one valid market, a full page
ValidPages == {<<>>, <<ValidMarket(PageSlug(1))>>, FullPage}

\* a listing adapter that replaces the whole progress dict and reports the
\* end of the fetch itself
MarketsProgressReplaced(progress, n) == Progress(n, 0, "ready")

\* `self.fetch_progress["markets"] = len(all_markets)`: one key of the
\* dict is assigned
MarketsProgress(progress, n) == [progress EXCEPT !.markets = n]

\* a loop that goes on after every page that has events
MorePagesUnlessEmpty(raised, n) == ~raised /\ n > 0

\* whether the loop takes another turn after a page of n events:
\* `if not events: break`, `if len(events) < limit: break`, and the
\* `break` of the except handler
MorePages(raised, n) == ~raised /\ n = limit

\* one turn of `while True` in _fetch_all_markets: the progress counter is
\* written, then the page at `offset` is requested.  The outcome is
\*   "events" : the page was read: no events, break; else its markets are
\*              filtered and appended, and the loop goes on only after a
\*              page of `limit` events read without an exception
\*   "error"  : urlopen or json.loads of the body raised and was caught:
\*              break
\*   "raise"  : an exception that leaves _fetch_all_markets (the print in
\*              the except handler fails), nothing is handed off
\* The upstream serves at most maxPages full pages in a row
MarketsPage(t, outcome, page, maxPages) ==
    /\ mpc[t] = "page"
    /\ fetch_progress' = MarketsProgress(fetch_progress, Len(all_markets[t]))
    /\ CASE outcome = "events" ->
              LET got == AppendMarkets(all_markets[t], page, t)
                  more == MorePages(got.raised, Len(page))
              IN  /\ more => (offset[t] \div limit) + 1 < maxPages
                  /\ events' = [events EXCEPT ![t] = page]
                  /\ all_markets' = [all_markets EXCEPT ![t] = got.all_markets]
                  /\ offset' = [offset EXCEPT ![t] =
                                  IF more THEN @ + limit ELSE 0]
                  /\ mpc' = [mpc EXCEPT ![t] =
                               IF more THEN "page" ELSE "store"]
         [] outcome = "error" ->
              /\ mpc' = [mpc EXCEPT ![t] = "store"]
              /\ offset' = [offset EXCEPT ![t] = 0]
              /\ UNCHANGED <<all_markets, events>>
         [] outcome = "raise" ->
              /\ mpc' = [mpc EXCEPT ![t] = MarketsOnRaise]
              /\ all_markets' = [all_markets EXCEPT ![t] = <<>>]
              /\ offset' = [offset EXCEPT ![t] = 0]
              /\ events' = [events EXCEPT ![t] = <<>>]
    /\ UNCHANGED <<scraperVars, markets, cached_markets, last_updated, rewards_slugs,
                   is_fetching_markets, is_fetching_rewards, refresh_timer,
                   timer, temp_markets, temp_rewards_slugs, tpc, rpc, cpc,
                   scrapeLocals, comb_markets>>

\* `self._temp_markets = all_markets`, then the `finally` of the thread
\* wrapper: `self.is_fetching_markets = False`.  One step: no other thread
\* reads both the hand-off attribute and the flag
MarketsStore(t) ==
    /\ mpc[t] = "store"
    /\ temp_markets' = <<all_markets[t]>>
    /\ all_markets' = [all_markets EXCEPT ![t] = <<>>]
    /\ events' = [events EXCEPT ![t] = <<>>]
    /\ is_fetching_markets' = FALSE
    /\ mpc' = [mpc EXCEPT ![t] = "done"]
    /\ UNCHANGED <<scraperVars, markets, cached_markets, last_updated, rewards_slugs,
                   is_fetching_rewards, fetch_progress, refresh_timer, timer,
                   temp_rewards_slugs, tpc, rpc, cpc, offset, scrapeLocals,
                   comb_markets>>

\* `finally: self.is_fetching_markets = False` after _fetch_all_markets
\* raised; the thread ends
MarketsClearFlag(t) ==
    /\ mpc[t] = "clear_flag"
    /\ is_fetching_markets' = FALSE
    /\ mpc' = [mpc EXCEPT ![t] = "done"]
    /\ UNCHANGED <<scraperVars, markets, cached_markets, last_updated, rewards_slugs,
                   is_fetching_rewards, fetch_progress, refresh_timer, timer,
                   temp_markets, temp_rewards_slugs, tpc, rpc, cpc,
                   localVars>>

\* the thread of cycle t against an upstream serving pages of Pages
fetch_markets_thread(t, Pages, maxPages) ==
    \/ MarketsSetFlag(t)
    \/ \E page \in Pages : MarketsPage(t, "events", page, maxPages)
    \/ \E o \in {"error", "raise"} : MarketsPage(t, o, <<>>, maxPages)
    \/ MarketsStore(t)
    \/ MarketsClearFlag(t)

\* -------------------------------------------------- scrape adapter thread
\* what _fetch_rewards_thread does when asyncio.run raises: the `finally`
\* clears the flag
RewardsOnRaise == "clear_flag"

\* _fetch_rewards_thread: `self.is_fetching_rewards = True`, then the
\* start of _fetch_rewards_slugs up to the page loop:
\*   "missing" : ImportError: the empty set is handed off
\*   "failed"  : async_playwright/launch/new_page raised, caught by the
\*               outer `except Exception`: the empty set is handed off
\*   "ok"      : the page loop is entered
\*   "raise"   : an exception that leaves _fetch_rewards_slugs (a print
\*               fails), nothing is handed off
RewardsSetFlag(t, outcome) ==
    /\ rpc[t] = "set_flag"
    /\ is_fetching_rewards' = TRUE
    /\ rpc' = [rpc EXCEPT ![t] =
                 CASE outcome \in {"missing", "failed"} -> "store"
                   [] outcome = "ok" -> "page"
                   [] outcome = "raise" -> RewardsOnRaise]
    /\ UNCHANGED <<scraperVars, markets, cached_markets, last_updated, rewards_slugs,
                   is_fetching_markets, fetch_progress, refresh_timer, timer,
                   temp_markets, temp_rewards_slugs, tpc, mpc, cpc,
                   localVars>>

\* the pages of slugs the rewards listing may show
RewardPages == SUBSET {SlugSeq[i] : i \in 1..Len(SlugSeq)}

\* the page of a rewards listing with one market, the first of the
\* listing upstream
ValidRewardPages == {{PageSlug(1)}}

\* a scrape loop without its test for the listing starting over
LoopedBackNever(num, first, page) == FALSE

\* `if page_num == 1: ... elif first_page_slugs and set(slugs) ==
\* first_page_slugs`: a page after the first shows the slugs of the first
LoopedBack(num, first, page) ==
    num # 1 /\ first # <<>> /\ first[1] # {} /\ page = first[1]

\* one turn of `while page_num <= max_pages` with max_pages maxPages: the
\* progress counter is written, then page page_num is loaded.  The outcome
\* is
\*   "slugs" : the page was read.  The first page is remembered; a later
\*             page with the same slugs ends the loop and is not added; a
\*             page of fewer than ShortPage slugs is added and ends the
\*             loop; any other page is added and page_num += 1
\*   "error" : goto/evaluate raised, caught by the inner except: break
RewardsPage(t, outcome, page, maxPages) ==
    /\ rpc[t] = "page"
    /\ fetch_progress' = [fetch_progress EXCEPT
                            !.rewards = Cardinality(scraped[t])]
    /\ CASE outcome = "slugs" ->
              LET first == IF page_num[t] = 1 THEN <<page>>
                           ELSE first_page_slugs[t]
                  loop == LoopedBack(page_num[t], first, page)
                  short == Cardinality(page) < ShortPage
              IN  /\ slugs' = [slugs EXCEPT ![t] = page]
                  /\ first_page_slugs' = [first_page_slugs EXCEPT ![t] = first]
                  /\ scraped' = [scraped EXCEPT ![t] =
                                   IF loop THEN @ ELSE @ \cup page]
                  /\ page_num' = [page_num EXCEPT ![t] =
                                    IF loop \/ short THEN @ ELSE @ + 1]
                  /\ rpc' = [rpc EXCEPT ![t] =
                               IF loop \/ short \/ page_num[t] + 1 > maxPages
                               THEN "store" ELSE "page"]
         [] outcome = "error" ->
              /\ rpc' = [rpc EXCEPT ![t] = "store"]
              /\ UNCHANGED scrapeLocals
    /\ UNCHANGED <<scraperVars, markets, cached_markets, last_updated, rewards_slugs,
                   is_fetching_markets, is_fetching_rewards, refresh_timer,
                   timer, temp_markets, temp_rewards_slugs, tpc, mpc, cpc,
                   all_markets, offset, events, comb_markets>>

\* `self._temp_rewards_slugs = rewards_slugs` (or `= set()` after the
\* ImportError), then the `finally` of the thread wrapper:
\* `self.is_fetching_rewards = False`.  One step, as in MarketsStore
RewardsStore(t) ==
    /\ rpc[t] = "store"
    /\ temp_rewards_slugs' = <<scraped[t]>>
    /\ scraped' = [scraped EXCEPT ![t] = {}]
    /\ page_num' = [page_num EXCEPT ![t] = 1]
    /\ first_page_slugs' = [first_page_slugs EXCEPT ![t] = <<>>]
    /\ slugs' = [slugs EXCEPT ![t] = {}]
    /\ is_fetching_rewards' = FALSE
    /\ rpc' = [rpc EXCEPT ![t] = "done"]
    /\ UNCHANGED <<scraperVars, markets, cached_markets, last_updated, rewards_slugs,
                   is_fetching_markets, fetch_progress, refresh_timer, timer,
                   temp_markets, tpc, mpc, cpc, all_markets, offset, events, comb_markets>>

\* `finally: self.is_fetching_rewards = False` after asyncio.run raised;
\* the thread ends
RewardsClearFlag(t) ==
    /\ rpc[t] = "clear_flag"
    /\ is_fetching_rewards' = FALSE
    /\ rpc' = [rpc EXCEPT ![t] = "done"]
    /\ UNCHANGED <<scraperVars, markets, cached_markets, last_updated, rewards_slugs,
                   is_fetching_markets, fetch_progress, refresh_timer, timer,
                   temp_markets, temp_rewards_slugs, tpc, mpc, cpc,
                   localVars>>

fetch_rewards_thread(t, Pages, maxPages) ==
    \/ \E o \in {"missing", "failed", "ok", "raise"} : RewardsSetFlag(t, o)
    \/ \E page \in Pages : RewardsPage(t, "slugs", page, maxPages)
    \/ RewardsPage(t, "error", {}, maxPages)
    \/ RewardsStore(t)
    \/ RewardsClearFlag(t)

\* ------------------------------------------------------ wait_and_combine
\* an update that takes every scrape result, the empty one too
KeySetAlwaysRead(read, known) == read

\* `if rewards_slugs: self.rewards_slugs = rewards_slugs`: the key set
\* after a cycle that read the set `read` while `known` was in effect
KeySetAfter(read, known) == IF read # {} THEN read ELSE known

\* a wait_and_combine that does not wait
JoinedWithoutWait(t) == TRUE

\* `markets_thread.join(); rewards_thread.join()` of cycle t return
Joined(t) == mpc[t] = "done" /\ rpc[t] = "done"

\* a marking loop that flags every record
MarkRewardsAlways(list, keys) ==
    [i \in 1..Len(list) |-> [list[i] EXCEPT !.has_rewards = TRUE]]

\* a combiner that hands back the records in reverse order
MarkRewardsReversed(list, keys) ==
    [i \in 1..Len(list) |->
        [list[Len(list) + 1 - i] EXCEPT
            !.has_rewards = list[Len(list) + 1 - i].slug \in keys]]

\* getattr(self, name, default) of a hand-off attribute
TempOr(temp, default) == IF temp = <<>> THEN default ELSE temp[1]

\* the loop `market["has_rewards"] = market["slug"] in self.rewards_slugs`
MarkRewards(list, keys) ==
    [i \in 1..Len(list) |->
        [list[i] EXCEPT !.has_rewards = list[i].slug \in keys]]

\* markets_thread.join(); rewards_thread.join(); then _combine_data reads
\* the two hand-off attributes and
\* `if rewards_slugs: self.rewards_slugs = rewards_slugs`.  One step: the
\* reads commute with every step of another thread up to the write
CombineSlugs(t) ==
    /\ cpc[t] = "join"
    /\ Joined(t)
    /\ comb_markets' = [comb_markets EXCEPT ![t] = TempOr(temp_markets, <<>>)]
    /\ rewards_slugs' = KeySetAfter(TempOr(temp_rewards_slugs, {}),
                                    rewards_slugs)
    /\ cpc' = [cpc EXCEPT ![t] = "mark"]
    /\ UNCHANGED <<scraperVars, markets, cached_markets, last_updated,
                   is_fetching_markets, is_fetching_rewards, fetch_progress,
                   refresh_timer, timer, temp_markets, temp_rewards_slugs,
                   tpc, mpc, rpc, all_markets, offset, events, scrapeLocals>>

\* a list as it reads after the dicts of `marked` were assigned to: a dict
\* that is also in `marked` shows the assigned value
Shared(list, marked) ==
    [i \in 1..Len(list) |->
        IF \E j \in 1..Len(marked) : marked[j].ref = list[i].ref
        THEN marked[CHOOSE j \in 1..Len(marked) : marked[j].ref = list[i].ref]
        ELSE list[i]]

\* `for market in markets: market["has_rewards"] = ...`, then
\* `self.markets = markets`.  The loop reads self.rewards_slugs and assigns
\* to the dicts of the list in place: every other holder of the same
\* dicts (a copy in cached_markets, the hand-off attribute, the local of
\* another wait_and_combine thread that read the same hand-off) sees the
\* assignment
CombinePublish(t) ==
    LET marked == MarkRewards(comb_markets[t], rewards_slugs)
    IN  /\ cpc[t] = "mark"
        /\ markets' = marked
        /\ cached_markets' = Shared(cached_markets, marked)
        /\ temp_markets' = IF temp_markets = <<>> THEN <<>>
                           ELSE <<Shared(temp_markets[1], marked)>>
        /\ comb_markets' = [u \in Triggers |->
                              Shared(comb_markets[u], marked)]
        /\ cpc' = [cpc EXCEPT ![t] = "stamp"]
        /\ UNCHANGED <<scraperVars, last_updated, rewards_slugs,
                       is_fetching_markets, is_fetching_rewards,
                       fetch_progress, refresh_timer, timer,
                       temp_rewards_slugs, tpc, mpc, rpc, all_markets,
                       offset, events, scrapeLocals>>

\* `self.last_updated = datetime.now().isoformat()`
CombineStamp(t) ==
    /\ cpc[t] = "stamp"
    /\ last_updated' = last_updated + 1
    /\ cpc' = [cpc EXCEPT ![t] = "ready"]
    /\ UNCHANGED <<scraperVars, markets, cached_markets, rewards_slugs,
                   is_fetching_markets, is_fetching_rewards, fetch_progress,
                   refresh_timer, timer, temp_markets, temp_rewards_slugs,
                   tpc, mpc, rpc, localVars>>

\* `self.fetch_progress = {len(markets), len(self.rewards_slugs), "ready"}`
CombineReady(t) ==
    /\ cpc[t] = "ready"
    /\ fetch_progress' = Progress(Len(comb_markets[t]),
                                  Cardinality(rewards_slugs), "ready")
    /\ comb_markets' = [comb_markets EXCEPT ![t] = <<>>]
    /\ cpc' = [cpc EXCEPT ![t] = "cleanup"]
    /\ UNCHANGED <<scraperVars, markets, cached_markets, last_updated, rewards_slugs,
                   is_fetching_markets, is_fetching_rewards,
                   refresh_timer, timer, temp_markets, temp_rewards_slugs,
                   tpc, mpc, rpc, all_markets, offset, events, scrapeLocals>>

\* `if hasattr(self, '_temp_markets'): del self._temp_markets` and the same
\* for _temp_rewards_slugs; the thread ends
CombineCleanup(t) ==
    /\ cpc[t] = "cleanup"
    /\ temp_markets' = <<>>
    /\ temp_rewards_slugs' = <<>>
    /\ cpc' = [cpc EXCEPT ![t] = "done"]
    /\ UNCHANGED <<scraperVars, markets, cached_markets, last_updated, rewards_slugs,
                   is_fetching_markets, is_fetching_rewards, fetch_progress,
                   refresh_timer, timer, tpc, mpc, rpc, localVars>>

wait_and_combine(t) ==
    \/ CombineSlugs(t)
    \/ CombinePublish(t)
    \/ CombineStamp(t)
    \/ CombineReady(t)
    \/ CombineCleanup(t)

\* ------------------------------------------------------- RequestHandler
\* `monitor.is_fetching_markets or monitor.is_fetching_rewards`
IsRefreshing == is_fetching_markets \/ is_fetching_rewards

\* `monitor.cached_markets if (is_refreshing and monitor.cached_markets)
\*  else monitor.markets`
MarketsToSend ==
    IF IsRefreshing /\ cached_markets # <<>> THEN cached_markets ELSE markets

\* body of the answer to GET /api/markets
MarketsBody ==
    [markets |-> MarketsToSend,
     total_count |-> Len(MarketsToSend),
     last_updated |-> last_updated,
     is_refreshing |-> IsRefreshing,
     progress |-> fetch_progress,
     rewards_count |-> Cardinality(rewards_slugs)]

\* body of the answer to GET /api/status
StatusBody ==
    [is_refreshing |-> IsRefreshing,
     progress |-> fetch_progress,
     total_count |-> Len(markets),
     rewards_count |-> Cardinality(rewards_slugs)]

\* body of the answer to GET /api/refresh
RefreshBody == [status |-> "started"]

\* do_GET, path /api/markets: MarketsBody is written to the socket, no
\* attribute of the monitor is assigned
GetMarkets ==
    /\ Serving
    /\ UNCHANGED vars

\* a status handler that starts a refresh
GetStatusStartsRefresh ==
    /\ Serving
    /\ NewTrigger
    /\ UNCHANGED <<scraperVars, monitorVars, mpc, rpc, cpc, localVars>>

\* do_GET, path /api/status: StatusBody is written to the socket
GetStatus ==
    /\ Serving
    /\ UNCHANGED vars

\* do_GET, path /api/refresh: a thread running start_full_refresh is
\* started unless a flag is set; RefreshBody is written in both cases
GetRefresh ==
    /\ Serving
    /\ IF ~IsRefreshing THEN NewTrigger ELSE UNCHANGED tpc
    /\ UNCHANGED <<scraperVars, monitorVars, mpc, rpc, cpc, localVars>>

\* ------------------------------------------------------- specification
Next ==
    \/ MainTrigger
    \/ \E k \in Triggers : TimerFires(k)
    \/ \E t \in Triggers : start_full_refresh(t)
    \/ \E t \in Triggers : fetch_markets_thread(t, ValidPages, MaxListingPages)
    \/ \E t \in Triggers :
         fetch_rewards_thread(t, ValidRewardPages, MaxScrapePages)
    \/ \E t \in Triggers : wait_and_combine(t)
    \/ GetMarkets
    \/ GetStatus
    \/ GetRefresh

Spec == Init /\ [][Next]_vars

\* ------------------------------------------- one cycle, any upstream page
\* the state in which main has returned from start_full_refresh: the timer
\* is started and the three threads of the first cycle exist
ListingInit ==
    /\ ScraperInit
    /\ markets = <<>>
    /\ cached_markets = <<>>
    /\ last_updated = 0
    /\ rewards_slugs = {}
    /\ is_fetching_markets = FALSE
    /\ is_fetching_rewards = FALSE
    /\ fetch_progress = Progress(0, 0, "fetching")
    /\ refresh_timer = 1
    /\ timer = [t \in Triggers |-> IF t = 1 THEN "pending" ELSE "none"]
    /\ temp_markets = <<>>
    /\ temp_rewards_slugs = <<>>
    /\ tpc = [t \in Triggers |-> IF t = 1 THEN "done" ELSE "unused"]
    /\ mpc = [t \in Triggers |-> IF t = 1 THEN "set_flag" ELSE "none"]
    /\ rpc = [t \in Triggers |-> IF t = 1 THEN "set_flag" ELSE "none"]
    /\ cpc = [t \in Triggers |-> IF t = 1 THEN "join" ELSE "none"]
    /\ all_markets = [t \in Triggers |-> <<>>]
    /\ offset = [t \in Triggers |-> 0]
    /\ events = [t \in Triggers |-> <<>>]
    /\ scraped = [t \in Triggers |-> {}]
    /\ page_num = [t \in Triggers |-> 1]
    /\ first_page_slugs = [t \in Triggers |-> <<>>]
    /\ slugs = [t \in Triggers |-> {}]
    /\ comb_markets = [t \in Triggers |-> <<>>]

\* the first cycle alone (no refresh request, the timer not yet due),
\* against an upstream that may serve any page
ListingNext ==
    \/ fetch_markets_thread(1, UpstreamPages, MaxPagesAlone)
    \/ fetch_rewards_thread(1, ValidRewardPages, MaxScrapePages)
    \/ wait_and_combine(1)
    \/ GetMarkets
    \/ GetStatus

ListingSpec == ListingInit /\ [][ListingNext]_vars

\* the same cycle, its scrape adapter against a rewards listing showing
\* any pages
ScrapeNext ==
    \/ fetch_markets_thread(1, ValidPages, MaxListingPages)
    \/ fetch_rewards_thread(1, RewardPages, MaxScrapePagesAlone)
    \/ wait_and_combine(1)
    \/ GetStatus

ScrapeSpec == ListingInit /\ [][ScrapeNext]_vars

\* ---------------------------------------------------- v1_rewards_scraper
\* the condition_id of the markets the rewards pages may show
V1Ids == {SlugSeq[i] : i \in 1..V1ShortPage}

\* markets_data of a page: the page script returns every market once
V1Pages ==
    {pg \in UNION {[1..n -> V1Ids] : n \in 0..V1ShortPage} :
        \A i, j \in 1..Len(pg) : pg[i] = pg[j] => i = j}

\* every market of the page is appended, seen before or not
AddNewNoDedup(list, seen, page) ==
    [all_markets |-> list \o page,
     seen_ids |-> seen \cup {page[i] : i \in 1..Len(page)}]

RECURSIVE AddNew(_, _, _)
\* `for market in markets_data: if market_id and market_id not in
\* seen_ids: seen_ids.add(market_id); all_markets.append(market)`
AddNew(list, seen, page) ==
    IF page = <<>> THEN [all_markets |-> list, seen_ids |-> seen]
    ELSE IF Head(page) \in seen THEN AddNew(list, seen, Tail(page))
    ELSE AddNew(Append(list, Head(page)), seen \cup {Head(page)}, Tail(page))

\* `self.is_scraping = True` and the locals of scrape_all_pages
ScrapeSetFlag(s) ==
    /\ scrape[s].pc = "set_flag"
    /\ rewards_monitor' = [rewards_monitor EXCEPT !.is_scraping = TRUE]
    /\ scrape' = [scrape EXCEPT ![s] = NoLocals("launch")]
    /\ UNCHANGED dashboardVars

\* `async with async_playwright()`, launch, new_page: on an exception
\* ("raise") scrape_all_pages is left and the thread ends in run_scrape
ScrapeLaunch(s, outcome) ==
    /\ scrape[s].pc = "launch"
    /\ scrape' = [scrape EXCEPT ![s] =
                    IF outcome = "ok" THEN [@ EXCEPT !.pc = "page"]
                    ELSE NoLocals("raised")]
    /\ UNCHANGED <<dashboardVars, rewards_monitor>>

\* one turn of `while page_num <= max_pages`: scrape_progress is
\* assigned, then the page is loaded.  The outcome is
\*   "markets" : the page was read.  The first market of page 1 is
\*               remembered; a later page starting with it ends the loop
\*               and is not added; else the new markets are added, and a
\*               page of fewer than V1ShortPage markets ends the loop
\*   "error"   : goto/evaluate raised, caught: break
\* markets_data is the page read last; caught says that the loop was
\* left by the `except` clause
ScrapePage(s, outcome, page) ==
    LET l == scrape[s]
        first == IF l.page_num = 1 /\ page # <<>> THEN <<page[1]>>
                 ELSE l.first_page_first_market
        loop == /\ l.page_num > 1 /\ page # <<>> /\ first # <<>>
                /\ page[1] = first[1]
        got == AddNew(l.all_markets, l.seen_ids, page)
        short == Len(page) < V1ShortPage
    IN  /\ l.pc = "page"
        /\ rewards_monitor' = [rewards_monitor EXCEPT !.scrape_progress =
                                 ScrapeProgress(l.page_num, "?")]
        /\ scrape' = [scrape EXCEPT ![s] =
             CASE outcome = "error" ->
                    [l EXCEPT !.pc = "close", !.caught = TRUE]
               [] outcome # "error" /\ loop ->
                    [l EXCEPT !.pc = "close", !.markets_data = page]
               [] OTHER ->
                    [pc |-> IF short \/ l.page_num + 1 > V1MaxPages
                            THEN "close" ELSE "page",
                     all_markets |-> got.all_markets,
                     seen_ids |-> got.seen_ids,
                     first_page_first_market |-> first,
                     page_num |-> IF short THEN l.page_num
                                  ELSE l.page_num + 1,
                     markets_data |-> page,
                     caught |-> FALSE]]
        /\ UNCHANGED dashboardVars

\* `await browser.close()` and the exit of the `async with`: on an
\* exception the thread ends in run_scrape
ScrapeClose(s, outcome) ==
    /\ scrape[s].pc = "close"
    /\ scrape' = [scrape EXCEPT ![s] =
                    IF outcome = "ok" THEN [@ EXCEPT !.pc = "publish"]
                    ELSE NoLocals("raised")]
    /\ UNCHANGED <<dashboardVars, rewards_monitor>>

\* `self.markets = all_markets`
ScrapePublish(s) ==
    /\ scrape[s].pc = "publish"
    /\ rewards_monitor' = [rewards_monitor EXCEPT
                             !.markets = scrape[s].all_markets]
    /\ scrape' = [scrape EXCEPT ![s].pc = "stamp"]
    /\ UNCHANGED dashboardVars

\* `self.last_updated = datetime.now().isoformat()`
ScrapeStamp(s) ==
    /\ scrape[s].pc = "stamp"
    /\ rewards_monitor' = [rewards_monitor EXCEPT !.last_updated = @ + 1]
    /\ scrape' = [scrape EXCEPT ![s].pc = "clear"]
    /\ UNCHANGED dashboardVars

\* `self.is_scraping = False`
ScrapeClearFlag(s) ==
    /\ scrape[s].pc = "clear"
    /\ rewards_monitor' = [rewards_monitor EXCEPT !.is_scraping = FALSE]
    /\ scrape' = [scrape EXCEPT ![s].pc = "progress"]
    /\ UNCHANGED dashboardVars

\* `self.scrape_progress = {"current": page_num, "total": page_num}`;
\* scrape_all_pages returns and the thread ends
ScrapeDone(s) ==
    /\ scrape[s].pc = "progress"
    /\ rewards_monitor' = [rewards_monitor EXCEPT !.scrape_progress =
                             ScrapeProgress(scrape[s].page_num,
                                            scrape[s].page_num)]
    /\ scrape' = [scrape EXCEPT ![s] = NoLocals("done")]
    /\ UNCHANGED dashboardVars

\* run_scrape on the thread started by request s
run_scrape(s) ==
    \/ ScrapeSetFlag(s)
    \/ \E o \in {"ok", "raise"} : ScrapeLaunch(s, o)
    \/ \E page \in V1Pages : ScrapePage(s, "markets", page)
    \/ ScrapePage(s, "error", <<>>)
    \/ \E o \in {"ok", "raise"} : ScrapeClose(s, o)
    \/ ScrapePublish(s)
    \/ ScrapeStamp(s)
    \/ ScrapeClearFlag(s)
    \/ ScrapeDone(s)

\* APIHandler.do_GET, /api/refresh: the status of the answer, by the
\* value is_scraping has when the handler reads it
V1RefreshStatus(busy) == IF busy THEN "busy" ELSE "started"

\* APIHandler.do_GET, /api/refresh: `if not monitor.is_scraping:` a
\* thread running run_scrape is started; the model has a thread for each
\* of MaxScrapes requests answered "started"
V1GetRefresh ==
    /\ IF V1RefreshStatus(rewards_monitor.is_scraping) = "started"
       THEN \E s \in Scrapes :
               /\ scrape[s].pc = "none"
               /\ \A u \in Scrapes : u < s => scrape[u].pc # "none"
               /\ scrape' = [scrape EXCEPT ![s].pc = "set_flag"]
       ELSE UNCHANGED scrape
    /\ UNCHANGED <<dashboardVars, rewards_monitor>>

\* RewardsMonitor.get_data
get_data ==
    [markets |-> rewards_monitor.markets,
     total_count |-> Len(rewards_monitor.markets),
     last_updated |-> rewards_monitor.last_updated,
     is_scraping |-> rewards_monitor.is_scraping,
     progress |-> rewards_monitor.scrape_progress]

\* APIHandler.do_GET, /api/markets: get_data is sent, nothing is assigned
V1GetMarkets == UNCHANGED vars

V1Next ==
    \/ V1GetRefresh
    \/ V1GetMarkets
    \/ \E s \in Scrapes : run_scrape(s)

V1Spec == Init /\ [][V1Next]_vars

\* ------------------------------------------------------------- claims
\* the adapter threads of cycle t exist (started and not ended)
AdaptersAlive(t) ==
    \/ mpc[t] \notin {"none", "done"}
    \/ rpc[t] \notin {"none", "done"}

\* cycle t was started and its _combine_data has not returned
CycleInFlight(t) == cpc[t] \notin {"none", "done"}

\* cycle t was started and has not assigned its snapshot to self.markets
CycleBuilding(t) == cpc[t] \in {"join", "mark"}

\* cycle t has run _combine_data to its end
Completed(t) == cpc[t] = "done"

CompletedCycles == Cardinality({t \in Triggers : Completed(t)})

\* timers that ran _auto_refresh
TimerFirings == Cardinality({k \in Triggers : timer[k] = "fired"})

\* every call of start_full_refresh but the one in main came from a timer
NoManualTrigger == Used >= 1 /\ Used - 1 = TimerFirings

\* no call of start_full_refresh and no cycle is under way
Quiescent == \A t \in Triggers : ~Live(t)

\* C1: at most one refresh cycle is in flight: the adapter threads of two
\* different cycles never exist at the same time.
C1_OneCycleInFlight ==
    Cardinality({t \in Triggers : AdaptersAlive(t)}) <= 1

\* C2: a call of start_full_refresh whose check finds is_fetching_markets
\* or is_fetching_rewards set returns at once: it changes no attribute of
\* the monitor and no timer, starts no thread, raises no error, and does
\* nothing afterwards.
C2_InFlightCallIsNoOp ==
    [][\A t \in Triggers :
         /\ ( /\ tpc'[t] # tpc[t]
              /\ \/ tpc[t] = "check_markets" /\ is_fetching_markets
                 \/ tpc[t] = "check_rewards" /\ is_fetching_rewards )
            => /\ tpc'[t] = "returned"
               /\ UNCHANGED <<monitorVars, mpc, rpc, cpc, localVars>>
         /\ tpc[t] = "returned"
            => /\ tpc'[t] = "returned"
               /\ mpc'[t] = "none" /\ rpc'[t] = "none" /\ cpc'[t] = "none"
      ]_vars

\* a call has returned at the check while a cycle was in flight
C2_Witness ==
    \E t \in Triggers :
        /\ tpc[t] = "returned"
        /\ \E u \in Triggers : u # t /\ AdaptersAlive(u)

\* C3: a GET /api/markets answered while a cycle is in flight and
\* cached_markets is non-empty returns at least as many records as
\* cached_markets.
C3_ServesAtLeastPrevious ==
    ( /\ Serving
      /\ \E t \in Triggers : CycleBuilding(t)
      /\ cached_markets # <<>> )
    => Len(MarketsBody.markets) >= Len(cached_markets)

\* C4: once a non-empty snapshot has been published (a non-empty
\* cached_markets is a copy of one), every GET /api/markets returns a
\* non-empty record list.
C4_NeverEmptyAfterSuccess ==
    (Serving /\ cached_markets # <<>>) => MarketsBody.markets # <<>>

\* C5: a client that observes fetch_progress.status "ready" gets the
\* snapshot in self.markets, not an older one, from GET /api/markets.
C5_ReadyServesNewSnapshot ==
    (Serving /\ StatusBody.progress.status = "ready")
    => MarketsBody.markets = markets

\* C6: in a run with no manual trigger the timer is re-armed once per
\* completed cycle, so the timers that have fired number the completed
\* cycles: never one more (a firing follows the completion that armed its
\* timer) and never fewer than all but the one timer still pending.
C6_FiringsEqualCompletedCycles ==
    NoManualTrigger =>
        /\ TimerFirings <= CompletedCycles
        /\ CompletedCycles <= TimerFirings + 1

\* C7: after every completed cycle a one-shot timer is pending.
C7_TimerPendingAfterCycle ==
    (Quiescent /\ CompletedCycles >= 1)
    => \E k \in Triggers : timer[k] = "pending"

\* C8: at most one auto-refresh timer is pending at any time.
C8_OneTimerPending ==
    Cardinality({k \in Triggers : timer[k] = "pending"}) <= 1

\* C9: GET /api/refresh answers "busy" when a cycle is already in flight
\* and "started" when it starts one.
C9_RefreshAnswersBusy ==
    Serving =>
        RefreshBody.status = (IF IsRefreshing THEN "busy" ELSE "started")

\* a thread of cycle t can take a step
CycleCanStep(t) ==
    ENABLED (\/ fetch_markets_thread(t, ValidPages, MaxListingPages)
             \/ fetch_rewards_thread(t, ValidRewardPages, MaxScrapePages)
             \/ wait_and_combine(t))

\* C10: every started cycle completes whatever its adapters do: an
\* in-flight flag is set only while an adapter thread that will clear it
\* is running, a cycle that has not finished _combine_data always has a
\* thread that can run, and when every started cycle has finished the
\* flags are false and fetch_progress.status is "ready".
C10_EveryCycleCompletes ==
    /\ is_fetching_markets =>
         \E t \in Triggers : mpc[t] \in {"page", "store", "clear_flag"}
    /\ is_fetching_rewards =>
         \E t \in Triggers : rpc[t] \in {"page", "store", "clear_flag"}
    /\ \A t \in Triggers : CycleInFlight(t) => CycleCanStep(t)
    /\ (Quiescent /\ CompletedCycles >= 1)
         => /\ ~IsRefreshing
            /\ fetch_progress.status = "ready"

\* the only cycle of the run has reached "ready" although its listing
\* adapter raised and handed nothing off
C10_Witness ==
    /\ Used = 1
    /\ cpc[1] = "cleanup"
    /\ temp_markets = <<>>
    /\ fetch_progress.status = "ready"
    /\ ~IsRefreshing


\* a record without its has_rewards field
Unflagged(r) == [r EXCEPT !.has_rewards = FALSE]

\* the step in which the _combine_data of cycle t marks and publishes
Publishes(t) == cpc[t] = "mark" /\ cpc'[t] = "stamp"

\* the step in which the _combine_data of cycle t reads the hand-off
ReadsHandOff(t) == cpc[t] = "join" /\ cpc'[t] = "mark"

\* C11: _combine_data publishes exactly the records of the list it was
\* handed, in their order, each with has_rewards set to (its slug is in
\* the key set in effect, self.rewards_slugs).
C11_FlagsAndOrder ==
    [][\A t \in Triggers : Publishes(t) =>
         /\ Len(markets') = Len(comb_markets[t])
         /\ \A i \in 1..Len(markets') :
              /\ Unflagged(markets'[i]) = Unflagged(comb_markets[t][i])
              /\ markets'[i].has_rewards = (markets'[i].slug \in rewards_slugs)
      ]_vars

\* a snapshot of several records, the first in the program, the second
\* not, has been published
C11_Witness ==
    /\ cpc[1] = "stamp"
    /\ Len(markets) >= 2
    /\ markets[1].has_rewards
    /\ ~markets[2].has_rewards

\* C12: once rewards_slugs is non-empty it is never empty again, and a
\* cycle that reads an empty scrape result leaves the key set as it was.
C12_EmptyScrapeKeepsKeys ==
    [][/\ rewards_slugs # {} => rewards_slugs' # {}
       /\ \A t \in Triggers :
            (ReadsHandOff(t) /\ TempOr(temp_rewards_slugs, {}) = {})
            => rewards_slugs' = rewards_slugs
      ]_vars

\* a cycle whose scrape handed off the empty set has published a record
\* flagged against the key set of an earlier cycle
C12_Witness ==
    \E t \in Triggers :
        /\ cpc[t] = "stamp"
        /\ temp_rewards_slugs = <<{}>>
        /\ markets # <<>>
        /\ markets[1].has_rewards

\* C13: the flags _combine_data computes depend on its two inputs only:
\* a record is flagged exactly when its slug is in the scrape key set the
\* call read (as it is in the first cycle of a process, when no earlier
\* cycle has left a key set).
C13_CombineDeterministic ==
    [][\A t \in Triggers : ReadsHandOff(t) =>
         \A i \in 1..Len(comb_markets'[t]) :
            (comb_markets'[t][i].slug \in rewards_slugs')
            = (comb_markets'[t][i].slug \in TempOr(temp_rewards_slugs, {}))
      ]_vars

\* the page of three markets of the scenario, the placeholder at pos
ScenarioPage(pos) ==
    [i \in 1..3 |-> IF i = pos THEN PlaceholderMarket(PageSlug(i))
                    ELSE ValidMarket(PageSlug(i))]

\* the snapshot of the scenario: the page filtered, then flagged against
\* the slug of its first valid market
ScenarioSnapshot(pos) ==
    MarkRewards(AppendMarkets(<<>>, ScenarioPage(pos), 1).all_markets,
                {PageSlug(IF pos = 1 THEN 2 ELSE 1)})

\* C14: no record without a Yes price or a No price is in a published
\* snapshot or in the list handed to the combiner; three markets of which
\* one is a placeholder give a snapshot of the two others, in order, the
\* first flagged and the second not.
C14_PlaceholdersDropped ==
    /\ \A list \in {markets, cached_markets, TempOr(temp_markets, <<>>)} :
         \A i \in 1..Len(list) :
            list[i].yes_price # <<>> /\ list[i].no_price # <<>>
    /\ \A pos \in 1..3 :
         /\ Len(ScenarioSnapshot(pos)) = 2
         /\ ScenarioSnapshot(pos)[1].has_rewards
         /\ ~ScenarioSnapshot(pos)[2].has_rewards
         /\ \A i \in 1..2 :
              ScenarioSnapshot(pos)[i].slug
              = PageSlug(IF i < pos THEN i ELSE i + 1)

\* the snapshot of the scenario with the placeholder in the middle has
\* been published: slugs "a" and "c", the first flagged
C14_Witness ==
    /\ cpc[1] = "stamp"
    /\ Len(markets) = 2
    /\ markets[1].slug = PageSlug(1) /\ markets[1].has_rewards
    /\ markets[2].slug = PageSlug(3) /\ ~markets[2].has_rewards

\* a price field within [0, 100] cents (units of 0.01 cent)
InRange(price) == price # <<>> /\ price[1] >= 0 /\ price[1] <= 10000

\* C15: in every record of markets and cached_markets, yes_price and
\* no_price are both null or both within [0, 100].
C15_PricesInRange ==
    \A list \in {markets, cached_markets} :
        \A i \in 1..Len(list) :
            \/ list[i].yes_price = <<>> /\ list[i].no_price = <<>>
            \/ InRange(list[i].yes_price) /\ InRange(list[i].no_price)

\* C16: handling GET /api/markets or GET /api/status changes no attribute
\* of the monitor, no timer and no thread.
C16_ReadsArePure ==
    [][(GetMarkets \/ GetStatus) => UNCHANGED <<monitorVars, threadVars>>]_vars

\* both read handlers can run while a cycle is in flight and a previous
\* snapshot exists
C16_Witness ==
    /\ ENABLED GetMarkets
    /\ ENABLED GetStatus
    /\ IsRefreshing
    /\ cached_markets # <<>>

\* C17: cancel_auto_refresh leaves refresh_timer None and the timer it
\* referred to not pending, raises nothing, and a second call changes
\* nothing more; with refresh_timer None the first call changes nothing.
\* The steps of the call inside start_full_refresh do what it says.
C17_CancelIdempotent ==
    [][LET once == cancel_auto_refresh(refresh_timer, timer)
           twice == cancel_auto_refresh(once.refresh_timer, once.timer)
       IN  /\ ~once.raised /\ ~twice.raised
           /\ twice = once
           /\ once.refresh_timer = 0
           /\ refresh_timer # 0 => once.timer[refresh_timer] # "pending"
           /\ refresh_timer = 0 => once.timer = timer
           /\ \A t \in Triggers :
                /\ (tpc[t] = "cancel_call" /\ tpc'[t] = "cancel_clear")
                   => timer' = once.timer
                /\ (tpc[t] = "cancel_clear" /\ tpc'[t] # tpc[t])
                   => refresh_timer' = 0
      ]_vars

\* a call has cancelled a pending timer and cleared the handle
C17_Witness ==
    \E t \in Triggers : \E k \in Triggers :
        /\ tpc[t] = "timer_create"
        /\ timer[k] = "cancelled"
        /\ refresh_timer = 0

\* the records of every list a reader can get
ServedRecords ==
    {markets[i] : i \in 1..Len(markets)}
    \cup {cached_markets[i] : i \in 1..Len(cached_markets)}

\* C18: as long as no scrape has produced a key (the adapter is
\* unavailable in every cycle), every cycle still completes and every
\* published record has has_rewards false.
C18_NoScraperAllUnflagged ==
    rewards_slugs = {} =>
        /\ \A r \in ServedRecords : ~r.has_rewards
        /\ \A t \in Triggers : CycleInFlight(t) => CycleCanStep(t)
        /\ (Quiescent /\ CompletedCycles >= 1)
             => fetch_progress.status = "ready"

\* two cycles have completed without any key and the second has
\* published a record
C18_Witness ==
    /\ rewards_slugs = {}
    /\ CompletedCycles >= 1
    /\ \E t \in Triggers :
         /\ cpc[t] = "cleanup"
         /\ temp_rewards_slugs = <<{}>>
    /\ markets # <<>>
    /\ cached_markets # <<>>

\* the order of the steps of one wait_and_combine thread
CombineOrder ==
    {<<"none", "join">>, <<"join", "mark">>, <<"mark", "stamp">>,
     <<"stamp", "ready">>, <<"ready", "cleanup">>, <<"cleanup", "done">>}

\* C19: _combine_data of a cycle runs once, from its start to its end,
\* and only after both adapter threads of that cycle have finished; the
\* snapshot is assigned only by such a run.
C19_CombineOnceAfterBoth ==
    [][/\ \A t \in Triggers :
            /\ cpc'[t] # cpc[t] => <<cpc[t], cpc'[t]>> \in CombineOrder
            /\ cpc'[t] \notin {"none", "join"}
               => mpc'[t] = "done" /\ rpc'[t] = "done"
            /\ cpc'[t] # "none" => tpc'[t] = "done"
       /\ markets' # markets => \E t \in Triggers : Publishes(t)
      ]_vars

\* a cycle has published a snapshot after both its adapters ended
C19_Witness ==
    \E t \in Triggers :
        /\ cpc[t] = "stamp"
        /\ mpc[t] = "done" /\ rpc[t] = "done"
        /\ markets # <<>>

\* C20: a record that readers can get (in markets or cached_markets) has
\* no field changed by any step.
C20_SnapshotsImmutable ==
    [][\A r \in ServedRecords :
         \A list \in {markets', cached_markets'} :
            \A i \in 1..Len(list) : list[i].ref = r.ref => list[i] = r
      ]_vars

\* C21: in every state where neither is_fetching_markets nor
\* is_fetching_rewards is set, fetch_progress.status is not "fetching".
C21_FetchingOnlyWhileFlagged ==
    ~IsRefreshing => fetch_progress.status # "fetching"

\* C22: the step of start_full_refresh that keeps the previous snapshot
\* leaves in cached_markets the value self.markets has when the cycle
\* starts, also when that value is the empty list.
C22_CachedIsSnapshotAtStart ==
    [][\A t \in Triggers :
         (tpc[t] = "cache" /\ tpc'[t] = "cancel_test")
         => cached_markets' = markets
      ]_vars

\* C24: the call that starts a cycle sets fetch_progress to
\* {0, 0, "fetching"} while neither adapter thread of the cycle has run a
\* statement, and in every state with status "ready" the counters of
\* fetch_progress are the length of markets and the size of rewards_slugs.
C24_ProgressResetAndFinal ==
    [][/\ \A t \in Triggers :
            (tpc[t] = "spawn" /\ tpc'[t] = "done")
            => /\ fetch_progress' = Progress(0, 0, "fetching")
               /\ mpc[t] = "none" /\ rpc[t] = "none"
               /\ mpc'[t] = "set_flag" /\ rpc'[t] = "set_flag"
       /\ fetch_progress'.status = "ready"
            => /\ fetch_progress'.markets = Len(markets')
               /\ fetch_progress'.rewards = Cardinality(rewards_slugs')
      ]_vars

\* C25: last_updated is None until a cycle has run _combine_data past its
\* assignment, and a cycle whose listing adapter handed off no record (it
\* failed on its first page) leaves last_updated as it was.
C25_FailedCycleKeepsTimestamp ==
    [][/\ last_updated' # 0
            => \E t \in Triggers : cpc'[t] \in {"ready", "cleanup", "done"}
       /\ \A t \in Triggers :
            (cpc[t] = "stamp" /\ cpc'[t] = "ready" /\ comb_markets[t] = <<>>)
            => last_updated' = last_updated
      ]_vars

\* a step taken by the listing adapter thread of some cycle
ListingStep ==
    \E t \in Triggers :
        /\ mpc[t] # "none"
        /\ \/ mpc'[t] # mpc[t]
           \/ offset'[t] # offset[t]
           \/ all_markets'[t] # all_markets[t]

\* a step taken by the scrape adapter thread of some cycle
ScrapeStep ==
    \E t \in Triggers :
        /\ rpc[t] # "none"
        /\ \/ rpc'[t] # rpc[t]
           \/ scraped'[t] # scraped[t]

\* C29: the listing adapter changes neither fetch_progress.rewards nor
\* fetch_progress.status, the scrape adapter changes neither
\* fetch_progress.markets nor fetch_progress.status, and neither changes
\* markets, cached_markets, rewards_slugs or last_updated; markets is
\* assigned and status "ready" is set only by _combine_data.
C29_AdapterFrame ==
    [][/\ ListingStep
            => /\ fetch_progress'.rewards = fetch_progress.rewards
               /\ fetch_progress'.status = fetch_progress.status
       /\ ScrapeStep
            => /\ fetch_progress'.markets = fetch_progress.markets
               /\ fetch_progress'.status = fetch_progress.status
       /\ (ListingStep \/ ScrapeStep)
            => UNCHANGED <<markets, cached_markets, rewards_slugs,
                           last_updated>>
       /\ markets' # markets => \E t \in Triggers : Publishes(t)
       /\ (fetch_progress'.status = "ready" /\ fetch_progress.status # "ready")
            => \E t \in Triggers : cpc[t] = "ready" /\ cpc'[t] = "cleanup"
      ]_vars

\* both adapters have run to their end and handed off a record and a key
\* while nothing is published yet and the status is still "fetching"
C29_Witness ==
    /\ mpc[1] = "done" /\ rpc[1] = "done"
    /\ temp_markets # <<>> /\ temp_markets[1] # <<>>
    /\ temp_rewards_slugs # <<>> /\ temp_rewards_slugs[1] # {}
    /\ markets = <<>> /\ rewards_slugs = {} /\ last_updated = 0
    /\ fetch_progress.status = "fetching"

\* C30: whenever GET /api/status reports is_refreshing false after a
\* cycle was started, that cycle has already assigned its snapshot to
\* self.markets, so that a GET /api/markets returns the new snapshot.
C30_NotRefreshingMeansPublished ==
    \A t \in Triggers :
        (Serving /\ cpc[t] # "none" /\ ~StatusBody.is_refreshing)
        => ~CycleBuilding(t)

\* a JSON value that is missing, null or a number below 10
BelowTen(v) == v.json \in {"absent", "null"} \/ v.num < 10

\* a JSON value that is a number of at least 10
AtLeastTen(v) == v.json = "number" /\ v.num >= 10

\* the records the step of a listing adapter appended to its all_markets
Appended(t) ==
    SubSeq(all_markets'[t], Len(all_markets[t]) + 1, Len(all_markets'[t]))

\* C28: every record of markets and of cached_markets has a volume of at
\* least 10 and a liquidity of at least 10, and the listing adapter
\* appends no record for a market of the page it read whose volumeNum or
\* liquidityNum is missing, null or below 10.
C28_VolumeAndLiquidity ==
    [][/\ \A r \in ServedRecords' :
            AtLeastTen(r.volume) /\ AtLeastTen(r.liquidity)
       /\ \A t \in Triggers :
            (mpc[t] = "page" /\ Len(all_markets'[t]) > Len(all_markets[t]))
            => \A i \in 1..Len(events'[t]) :
                 ( \/ BelowTen(events'[t][i].volumeNum)
                   \/ BelowTen(events'[t][i].liquidityNum) )
                 => \A j \in 1..Len(Appended(t)) :
                      Appended(t)[j].slug # events'[t][i].slug
      ]_vars

\* the adapter has read a page with a valid market, a market whose
\* volumeNum is null and a market without liquidityNum, and kept one
\* record
C28_Witness ==
    /\ mpc[1] = "store"
    /\ Len(events[1]) = 3
    /\ \E i \in 1..3 : events[1][i].volumeNum = JsonNull
    /\ \E i \in 1..3 : events[1][i].liquidityNum = JsonAbsent
    /\ Len(all_markets[1]) = 1

\* reading the markets of the page raises an exception
PageRaises(page) == \E i \in 1..Len(page) : MarketPrices(page[i]).raised

\* the listing adapter of cycle t ends a turn of its loop and goes on
ListingContinues(t) ==
    mpc[t] = "page" /\ mpc'[t] = "page" /\ offset'[t] # offset[t]

\* the listing adapter of cycle t leaves its loop by a break
ListingStops(t) == mpc[t] = "page" /\ mpc'[t] = "store"

\* all_markets after the records accepted from the page the turn read
WithPage(t) == AppendMarkets(all_markets[t], events'[t], t).all_markets

\* the listing adapter asks for offsets 0, limit, 2 * limit, ... and goes
\* on only after a full page read without an exception, whose accepted
\* records it appends in order
ListingPaging(t) ==
    /\ mpc'[t] = "set_flag" => offset'[t] = 0
    /\ offset'[t] % limit = 0
    /\ ListingContinues(t)
         => /\ offset'[t] = offset[t] + limit
            /\ Len(events'[t]) = limit
            /\ ~PageRaises(events'[t])
            /\ all_markets'[t] = WithPage(t)

\* C26 as stated: _fetch_all_markets asks for offsets 0, 100, 200, ...
\* and stops at the first page that is empty, short or raises; the list
\* it hands off is the concatenation in order of the accepted records of
\* the pages it read, and after an error of the pages before the failing
\* one only.
C26_WholePagesOnly ==
    [][\A t \in Triggers :
         /\ ListingPaging(t)
         /\ ListingStops(t)
              => \/ all_markets'[t] = all_markets[t]
                 \/ /\ Len(events'[t]) < limit
                    /\ ~PageRaises(events'[t])
                    /\ all_markets'[t] = WithPage(t)
      ]_vars

\* C26 amended: as above, but after an exception raised while the markets
\* of a page are read the list also holds the records accepted from that
\* page before the market that raised.
C26_PagesAndPartialPage ==
    [][\A t \in Triggers :
         /\ ListingPaging(t)
         /\ ListingStops(t)
              => \/ all_markets'[t] = all_markets[t]
                 \/ /\ Len(events'[t]) < limit \/ PageRaises(events'[t])
                    /\ all_markets'[t] = WithPage(t)
      ]_vars

\* the adapter has read a full page at offset 0 and then, at offset
\* `limit`, a page whose second market raised: it stopped with the
\* records of the first page and the first record of the second
C26_Witness ==
    /\ mpc[1] = "store"
    /\ Len(events[1]) >= 2
    /\ ~MarketPrices(events[1][1]).raised
    /\ MarketPrices(events[1][2]).raised
    /\ Len(all_markets[1]) = limit + 1

\* the scrape adapter of cycle t ends a turn of its loop and goes on
ScrapeContinues(t) ==
    rpc[t] = "page" /\ rpc'[t] = "page" /\ page_num'[t] # page_num[t]

\* the scrape adapter of cycle t leaves its loop
ScrapeStops(t) == rpc[t] = "page" /\ rpc'[t] = "store"

\* the page the turn read is a page after the first with the slugs of the
\* first page
SameAsFirstPage(t) ==
    /\ page_num[t] > 1
    /\ first_page_slugs[t] # <<>>
    /\ slugs'[t] = first_page_slugs[t][1]

\* C27: _fetch_rewards_slugs visits at most max_pages pages; it stops
\* without adding the page when a page after the first has the slug set
\* of the first page, stops after adding the page when the page has fewer
\* than ShortPage slugs, stops on a page error, and hands off the union of
\* the slugs of the pages added before the stop.
C27_ScrapeLoop ==
    [][\A t \in Triggers :
         /\ rpc'[t] = "page" => page_num'[t] \in 1..MaxScrapePagesAlone
         /\ ScrapeContinues(t)
              => /\ page_num'[t] = page_num[t] + 1
                 /\ Cardinality(slugs'[t]) >= ShortPage
                 /\ ~SameAsFirstPage(t)
                 /\ scraped'[t] = scraped[t] \cup slugs'[t]
         /\ ScrapeStops(t)
              => \/ /\ slugs'[t] = slugs[t]
                    /\ scraped'[t] = scraped[t]
                 \/ /\ SameAsFirstPage(t)
                    /\ scraped'[t] = scraped[t]
                 \/ /\ ~SameAsFirstPage(t)
                    /\ \/ Cardinality(slugs'[t]) < ShortPage
                       \/ page_num[t] = MaxScrapePagesAlone
                    /\ scraped'[t] = scraped[t] \cup slugs'[t]
         /\ (rpc[t] = "store" /\ rpc'[t] = "done")
              => temp_rewards_slugs' = <<scraped[t]>>
      ]_vars

\* the adapter has added two pages and found the slugs of the first page
\* again on the third: it stopped with the slugs of the two pages
C27_Witness ==
    /\ rpc[1] = "store"
    /\ page_num[1] = 3
    /\ first_page_slugs[1] = <<slugs[1]>>
    /\ Cardinality(scraped[1]) > Cardinality(slugs[1])

\* the run_scrape thread started by request s exists (started, not ended)
ScrapeAlive(s) == scrape[s].pc \notin {"none", "done", "raised"}

\* C23: in v1_rewards_scraper at most one scrape runs at a time: a GET
\* /api/refresh that arrives after another was answered "started" and
\* before that scrape has finished starts no second run_scrape thread.
C23_OneScrapeAtATime ==
    Cardinality({s \in Scrapes : ScrapeAlive(s)}) <= 1

\* C31: the hand-off attributes do not leak between cycles: the list the
\* _combine_data of a cycle reads, and then publishes, holds only records
\* that the listing adapter of the same cycle created.
C31_HandOffOfOwnCycle ==
    [][\A t \in Triggers :
         ReadsHandOff(t)
         => \A i \in 1..Len(comb_markets'[t]) :
              comb_markets'[t][i].ref[1] = t
      ]_vars

\* the snapshots assigned to self.markets so far
PublishedSnapshots ==
    Cardinality({t \in Triggers :
                   cpc[t] \in {"stamp", "ready", "cleanup", "done"}})

\* C32: a GET /api/markets response is of one generation: when it carries
\* the list in self.markets, the last_updated it carries is the timestamp
\* assigned for that list (the n-th timestamp for the n-th snapshot).
C32_ResponseOfOneGeneration ==
    (Serving /\ MarketsBody.markets = markets /\ markets # <<>>)
    => MarketsBody.last_updated = PublishedSnapshots

\* C33: in v1_rewards_scraper is_scraping is false again once every
\* scrape that was started has ended, also one that ended by an exception
\* of the browser launch, so that GET /api/refresh can be answered
\* "started" again.
C33_FlagClearedAfterScrape ==
    (\A s \in Scrapes : ~ScrapeAlive(s))
    => /\ ~rewards_monitor.is_scraping
       /\ V1RefreshStatus(rewards_monitor.is_scraping) = "started"

\* the markets list or the time stamp of the RewardsMonitor is assigned
\* a new value in this step
V1Published ==
    \/ rewards_monitor'.markets # rewards_monitor.markets
    \/ rewards_monitor'.last_updated # rewards_monitor.last_updated

\* C34: in v1_rewards_scraper markets and last_updated are written only
\* while is_scraping is true, so a read made outside a scrape never sees
\* them change, and when a scrape clears is_scraping the published list
\* is the complete list that scrape collected.
C34_PublishedBeforeFlagCleared ==
    [][/\ V1Published
          => rewards_monitor.is_scraping /\ rewards_monitor'.is_scraping
       /\ \A s \in Scrapes :
            (scrape[s].pc = "clear" /\ scrape'[s].pc = "progress")
            => /\ ~get_data'.is_scraping
               /\ get_data'.markets = scrape[s].all_markets
               /\ get_data'.total_count = Len(scrape[s].all_markets)
      ]_vars

\* the condition_id values of a list of markets
IdsOf(list) == {list[i] : i \in 1..Len(list)}

\* no two markets of the list have the same condition_id
NoDuplicate(list) == \A i, j \in 1..Len(list) : list[i] = list[j] => i = j

\* scrape s has read a page in this step (markets_data' is that page)
ReadsPage(s) ==
    /\ scrape[s].pc = "page"
    /\ scrape'[s] # scrape[s]
    /\ ~scrape'[s].caught

\* the page read in this step, after page 1, starts with the first
\* market of page 1
BackToPageOne(s) ==
    /\ scrape[s].page_num > 1
    /\ scrape'[s].markets_data # <<>>
    /\ scrape[s].first_page_first_market # <<>>
    /\ scrape'[s].markets_data[1] = scrape[s].first_page_first_market[1]

\* the markets of the page read in this step are in all_markets, after
\* the markets that were there
PageAdded(s) ==
    /\ Len(scrape'[s].all_markets) >= Len(scrape[s].all_markets)
    /\ SubSeq(scrape'[s].all_markets, 1, Len(scrape[s].all_markets))
         = scrape[s].all_markets
    /\ IdsOf(scrape'[s].all_markets)
         = IdsOf(scrape[s].all_markets) \cup IdsOf(scrape'[s].markets_data)

\* C35: scrape_all_pages of v1_rewards_scraper loads at most V1MaxPages
\* pages; seen_ids is the set of the condition_id values of all_markets
\* at every step, so that neither all_markets nor the published list has
\* a condition_id twice; a page after page 1 that starts with the first
\* market of page 1 is not added and ends the loop; any other page is
\* added, and ends the loop when it has fewer than V1ShortPage markets.
C35_PageLoop ==
    /\ [](/\ NoDuplicate(rewards_monitor.markets)
          /\ \A s \in Scrapes :
               /\ scrape[s].seen_ids = IdsOf(scrape[s].all_markets)
               /\ NoDuplicate(scrape[s].all_markets)
               /\ scrape[s].page_num <= V1MaxPages + 1
               /\ scrape[s].pc = "page" => scrape[s].page_num <= V1MaxPages)
    /\ [][\A s \in Scrapes :
            ReadsPage(s)
            => IF BackToPageOne(s)
               THEN /\ scrape'[s].all_markets = scrape[s].all_markets
                    /\ scrape'[s].pc = "close"
               ELSE /\ PageAdded(s)
                    /\ Len(scrape'[s].markets_data) < V1ShortPage
                         => scrape'[s].pc = "close"
                    /\ scrape'[s].pc = "page"
                         => scrape'[s].page_num = scrape[s].page_num + 1
         ]_vars

\* a scrape has read a full first page and then a full second page that
\* starts with another market and shows markets of the first page again:
\* nothing is added twice, the page limit ends the loop, and the list is
\* published
C35_Witness ==
    \E s \in Scrapes :
        /\ scrape[s].pc = "stamp"
        /\ scrape[s].page_num = V1MaxPages + 1
        /\ Len(scrape[s].markets_data) = V1ShortPage
        /\ scrape[s].markets_data[1] # scrape[s].first_page_first_market[1]
        /\ IdsOf(scrape[s].markets_data) \subseteq IdsOf(scrape[s].all_markets)
        /\ Len(scrape[s].all_markets) = V1ShortPage
        /\ rewards_monitor.markets = scrape[s].all_markets

====
